---- MODULE Spec2Model ----
(***************************************************************************)
(* State machine of the Smart Expense Tracker (script.js): the appState    *)
(* object, the localStorage snapshot, the rendered summary and list, the   *)
(* browser's table of pending setTimeout timers, and the handlers that     *)
(* initEventListeners wires to the page.                                   *)
(*                                                                         *)
(* Text values (form fields) are tuples of one-character strings, so that  *)
(* parseFloat and trim are computed character by character.  A date        *)
(* "YYYY-MM-DD" is the tuple <<year, month, day>> of its split('-') parts, *)
(* and <<>> is the empty date field.  Time is in milliseconds; a pending   *)
(* timer carries the time left until it fires.  The time value of a Date   *)
(* is in minutes since 1970-01-01T00:00Z, the unit of getTimezoneOffset(). *)
(***************************************************************************)
EXTENDS Integers, Sequences, FiniteSets, TLC

VARIABLES
    expenses,          \* appState.expenses
    monthlyBudget,     \* appState.monthlyBudget
    warningTimeoutId,  \* appState.warningTimeoutId (0 stands for null)
    currentMonth,      \* appState.currentMonth (0..11)
    currentYear,       \* appState.currentYear
    selectedFilter,    \* appState.selectedFilter
    warningShown,      \* budgetWarning carries the class 'show'
    formErrorText,     \* formError.textContent
    formErrorShown,    \* formError carries the class 'show'
    summary,           \* what updateBudgetDisplay last wrote to the page
    list,              \* what renderExpenses last wrote to the page
    storage,           \* localStorage['expenseTrackerState']
    timers,            \* pending setTimeout timers, in creation order
    today,             \* the clock's calendar date
    timezoneOffset,    \* the clock's getTimezoneOffset(): UTC minus local time, in minutes
    nextId,            \* the clock part of generateId()
    pc,                \* "boot" before initApp has run, "run" after
    storageFails,      \* localStorage.setItem throws (quota exceeded, storage off)
    instant,           \* observer: appState, the page and the stored value as the
                       \* same events leave them when the bodies of the setTimeout
                       \* calls of the three commands run at once, at submission
    armedFor,          \* observer: ms the banner has been up since showBudgetWarning last ran
    shownFor,          \* observer: ms the banner has been up since it last came up
    events,            \* observer: number of user and environment events so far
    last               \* observer: the handler that ran last, and whether the
                       \* banner was up when it started

vars == <<expenses, monthlyBudget, warningTimeoutId, currentMonth, currentYear,
          selectedFilter, warningShown, formErrorText, formErrorShown, summary,
          list, storage, timers, today, timezoneOffset, nextId, pc, storageFails,
          instant, armedFor, shownFor, events, last>>

appVars == <<expenses, monthlyBudget, currentMonth, currentYear, selectedFilter>>

----------------------------------------------------------------------------
(* Bounds of the exploration *)

\* user and environment events (commands, reloads, midnights) in one run
MaxEvents == 2

\* expenses in a snapshot of the display-order specification
MaxStored == 3

(* Delays of the program, in ms *)
BudgetDelay == 500
AddDelay == 600
DeleteDelay == 300
WarnDelay == 5000
FormErrorDelay == 5000

----------------------------------------------------------------------------
(* Values *)

Categories == {"food", "transport", "shopping", "entertainment",
               "healthcare", "utilities", "education", "other"}

MsgBudget == "Please enter a valid budget amount greater than zero"
MsgAmount == "Please enter a valid amount greater than zero"
MsgCategory == "Please select a category"
MsgDescription == "Please enter a description"
MsgDate == "Please select a date"
MsgFuture == "Date cannot be in the future"

FirstDay == <<2024, 1, 31>>
LastDay == <<2024, 2, 1>>

DaysInMonth(y, m) ==
    IF m = 2 THEN (IF y % 4 = 0 /\ (y % 100 # 0 \/ y % 400 = 0) THEN 29 ELSE 28)
    ELSE IF m \in {4, 6, 9, 11} THEN 30 ELSE 31

NextDay(d) ==
    IF d[3] < DaysInMonth(d[1], d[2]) THEN <<d[1], d[2], d[3] + 1>>
    ELSE IF d[2] < 12 THEN <<d[1], d[2] + 1, 1>>
    ELSE <<d[1] + 1, 1, 1>>

\* new Date().getMonth() and new Date().getFullYear()
ClockMonth(d) == d[2] - 1
ClockYear(d) == d[1]

\* the clock's offsets: UTC+14:00, UTC+05:30, UTC, UTC-05:00, UTC-12:00
TimezoneOffsets == {0 - 840, 0 - 330, 0, 300, 720}

\* the offset of the clock the page usually runs on
HomeOffset == 300

MinutesPerDay == 1440

IsLeapYear(y) == y % 4 = 0 /\ (y % 100 # 0 \/ y % 400 = 0)

DaysInYear(y) == IF IsLeapYear(y) THEN 366 ELSE 365

\* days from 1970-01-01 to the first of January of year y (y >= 1970)
DaysBeforeYear(y) ==
    365 * (y - 1970) + (y - 1969) \div 4 - (y - 1901) \div 100 + (y - 1601) \div 400

\* days from the first of January to the first of month index m (0..11);
\* an index past 11 carries into the next year, as MakeDay does
RECURSIVE DaysBeforeMonth(_, _)
DaysBeforeMonth(y, m) ==
    IF m = 0 THEN 0
    ELSE IF m > 11 THEN DaysInYear(y) + DaysBeforeMonth(y + 1, m - 12)
    ELSE DaysBeforeMonth(y, m - 1) + DaysInMonth(y, m)

\* MakeDay(year, month, date): the day number of the date; a day past the
\* end of the month carries into the next
MakeDay(y, m, d) == DaysBeforeYear(y) + DaysBeforeMonth(y, m) + d - 1

\* YearFromTime: the year the day number n falls in
RECURSIVE YearFrom(_, _)
YearFrom(n, y) == IF DaysBeforeYear(y + 1) <= n THEN YearFrom(n, y + 1) ELSE y

YearFromDay(n) == YearFrom(n, 1970 + n \div 366)

\* MonthFromTime: the month index the day number n falls in
RECURSIVE MonthFrom(_, _, _)
MonthFrom(n, y, m) ==
    IF m < 11 /\ DaysBeforeYear(y) + DaysBeforeMonth(y, m + 1) <= n
    THEN MonthFrom(n, y, m + 1)
    ELSE m

MonthFromDay(n) == MonthFrom(n, YearFromDay(n), 0)

\* new Date(year, monthIndex, day): the time value of the local midnight
\* of that date, UTC(LocalTime) = LocalTime + offset
DateFromParts(y, m, d, offset) == MakeDay(y, m, d) * MinutesPerDay + offset

\* new Date("YYYY-MM-DD"): a date-only ISO string is taken as UTC midnight
DateFromISO(date) == MakeDay(date[1], date[2] - 1, date[3]) * MinutesPerDay

\* LocalTime(t) = t - offset, and the day it falls in
LocalDay(t, offset) == (t - offset) \div MinutesPerDay

\* Date.prototype.getMonth and getFullYear
getMonth(t, offset) == MonthFromDay(LocalDay(t, offset))
getFullYear(t, offset) == YearFromDay(LocalDay(t, offset))

NoExpense == [id |-> 0, amount |-> 0, category |-> "", description |-> <<>>, date |-> <<>>]

----------------------------------------------------------------------------
(* Text helpers *)

NaN == [nan |-> TRUE, val |-> 0]
Num(n) == [nan |-> FALSE, val |-> n]

DigitChars == {"0", "1", "2", "3", "4", "5", "6", "7", "8", "9"}

DigitVal(c) ==
    CASE c = "0" -> 0 [] c = "1" -> 1 [] c = "2" -> 2 [] c = "3" -> 3
      [] c = "4" -> 4 [] c = "5" -> 5 [] c = "6" -> 6 [] c = "7" -> 7
      [] c = "8" -> 8 [] c = "9" -> 9

RECURSIVE TrimLeft(_)
TrimLeft(s) == IF s # <<>> /\ Head(s) = " " THEN TrimLeft(Tail(s)) ELSE s

RECURSIVE TrimRight(_)
TrimRight(s) ==
    IF s # <<>> /\ s[Len(s)] = " " THEN TrimRight(SubSeq(s, 1, Len(s) - 1)) ELSE s

\* String.prototype.trim
trim(s) == TrimRight(TrimLeft(s))

\* the longest run of digits s starts with: its value and its length
RECURSIVE ReadDigits(_, _, _)
ReadDigits(s, acc, n) ==
    IF s # <<>> /\ Head(s) \in DigitChars
    THEN ReadDigits(Tail(s), 10 * acc + DigitVal(Head(s)), n + 1)
    ELSE [val |-> acc, n |-> n]

\* parseFloat on texts without '.', 'e' or "Infinity": leading blanks are
\* skipped, one sign is read, then the longest run of digits; what follows
\* is ignored; no digit at all gives NaN
parseFloat(s) ==
    LET t == TrimLeft(s)
        signed == t # <<>> /\ Head(t) \in {"-", "+"}
        neg == t # <<>> /\ Head(t) = "-"
        r == ReadDigits(IF signed THEN Tail(t) ELSE t, 0, 0)
    IN  IF r.n = 0 THEN NaN ELSE Num(IF neg THEN 0 - r.val ELSE r.val)

----------------------------------------------------------------------------
(* localStorage: the value under the key 'expenseTrackerState' *)

Absent == [kind |-> "absent", expenses |-> <<>>, monthlyBudget |-> 0,
           currentMonth |-> 0, currentYear |-> 0]

\* a value JSON.parse throws on
Garbage == [kind |-> "garbage", expenses |-> <<>>, monthlyBudget |-> 0,
            currentMonth |-> 0, currentYear |-> 0]

\* mutant: the object that is written has fields for selectedFilter and
\* warningTimeoutId too
saveToLocalStorage_WholeState(exps, budget, cm, cy) ==
    [kind |-> "json", expenses |-> exps, monthlyBudget |-> budget,
     currentMonth |-> cm, currentYear |-> cy,
     selectedFilter |-> "all", warningTimeoutId |-> 0]

\* mutant: monthlyBudget is left out of the object that is written, so that
\* it reads back as undefined
saveToLocalStorage_DropsBudget(exps, budget, cm, cy) ==
    [kind |-> "json", expenses |-> exps, monthlyBudget |-> 0,
     currentMonth |-> cm, currentYear |-> cy]

\* what saveToLocalStorage writes: JSON.stringify of the four fields
saveToLocalStorage(exps, budget, cm, cy) ==
    [kind |-> "json", expenses |-> exps, monthlyBudget |-> budget,
     currentMonth |-> cm, currentYear |-> cy]

\* localStorage.setItem inside the try of saveToLocalStorage: the value under
\* the key after the call.  When setItem throws, the catch logs the error and
\* the key keeps its value.
setItem(fails, old, value) == IF fails THEN old ELSE value

\* x || d on a number
OrDefault(x, d) == IF x = 0 THEN d ELSE x

----------------------------------------------------------------------------
(* Domain functions *)

\* Number.prototype.toString of an integer, as parseFloat(expense.amount)
\* converts its argument to text first
RECURSIVE NatToText(_)
NatToText(n) ==
    LET digit == <<"0", "1", "2", "3", "4", "5", "6", "7", "8", "9">>[(n % 10) + 1]
    IN  IF n < 10 THEN <<digit>> ELSE Append(NatToText(n \div 10), digit)

NumberToText(n) == IF n < 0 THEN <<"-">> \o NatToText(0 - n) ELSE NatToText(n)

\* mutant: the date string is handed to the Date constructor as it is
isCurrentMonth_ParsedAsUTC(e, cm, cy) ==
    LET expenseDate == DateFromISO(e.date)
    IN  /\ getMonth(expenseDate, timezoneOffset) = cm
        /\ getFullYear(expenseDate, timezoneOffset) = cy

\* the expense's date, split at '-', as new Date(year, month - 1, day)
isCurrentMonth(e, cm, cy) ==
    LET year == e.date[1]
        month == e.date[2]
        day == e.date[3]
        expenseDate == DateFromParts(year, month - 1, day, timezoneOffset)
    IN  /\ getMonth(expenseDate, timezoneOffset) = cm
        /\ getFullYear(expenseDate, timezoneOffset) = cy

\* mutant: the total of all expenses, whatever their date
RECURSIVE calculateTotalSpent_AllTime(_, _, _)
calculateTotalSpent_AllTime(exps, cm, cy) ==
    IF exps = <<>> THEN 0
    ELSE calculateTotalSpent_AllTime(SubSeq(exps, 1, Len(exps) - 1), cm, cy)
            + parseFloat(NumberToText(exps[Len(exps)].amount)).val

RECURSIVE calculateTotalSpent(_, _, _)
calculateTotalSpent(exps, cm, cy) ==
    IF exps = <<>> THEN 0
    ELSE LET e == exps[Len(exps)]
             rest == calculateTotalSpent(SubSeq(exps, 1, Len(exps) - 1), cm, cy)
         IN  IF isCurrentMonth(e, cm, cy)
             THEN rest + parseFloat(NumberToText(e.amount)).val
             ELSE rest

filterExpensesByCategory(exps, category) ==
    IF category = "all" THEN exps
    ELSE SelectSeq(exps, LAMBDA e : e.category = category)

\* new Date(date).getTime(), up to a monotone rescaling
DateKey(d) == d[1] * 10000 + d[2] * 100 + d[3]

\* mutant: expenses of one date compare as equal, so that the sort leaves
\* them in their order of storage
CompareForDisplay_NoTieBreak(a, b) ==
    DateKey(b.date) - DateKey(a.date)

\* the comparator of renderExpenses: negative when a is shown before b
CompareForDisplay(a, b) ==
    IF DateKey(b.date) # DateKey(a.date)
    THEN DateKey(b.date) - DateKey(a.date)
    ELSE IF b.id < a.id THEN 0 - 1 ELSE IF b.id > a.id THEN 1 ELSE 0

\* Array.prototype.sort with that comparator (stable insertion)
RECURSIVE InsertSorted(_, _)
InsertSorted(sorted, e) ==
    IF sorted = <<>> THEN <<e>>
    ELSE IF CompareForDisplay(e, Head(sorted)) < 0 THEN <<e>> \o sorted
    ELSE <<Head(sorted)>> \o InsertSorted(Tail(sorted), e)

RECURSIVE SortForDisplay(_)
SortForDisplay(exps) ==
    IF exps = <<>> THEN <<>>
    ELSE InsertSorted(SortForDisplay(SubSeq(exps, 1, Len(exps) - 1)), exps[Len(exps)])

----------------------------------------------------------------------------
(* Rendering *)

\* mutant: the percentage is not capped at 100
updateBudgetDisplay_Uncapped(exps, budget, cm, cy) ==
    LET totalSpent == calculateTotalSpent(exps, cm, cy)
        num == IF budget > 0 THEN totalSpent * 100 ELSE 0
        den == IF budget > 0 THEN budget ELSE 1
    IN  [budget |-> budget, spent |-> totalSpent, remaining |-> budget - totalSpent,
         pctNum |-> num, pctDen |-> den, over |-> (num >= 90 * den)]

\* mutant: Math.max for Math.min
updateBudgetDisplay_MaxForMin(exps, budget, cm, cy) ==
    LET totalSpent == calculateTotalSpent(exps, cm, cy)
        above == budget > 0 /\ totalSpent * 100 >= 100 * budget
        num == IF budget > 0 THEN (IF above THEN totalSpent * 100 ELSE 100) ELSE 0
        den == IF above THEN budget ELSE 1
    IN  [budget |-> budget, spent |-> totalSpent, remaining |-> budget - totalSpent,
         pctNum |-> num, pctDen |-> den, over |-> (num >= 90 * den)]

\* updateBudgetDisplay: the figures it writes.  The percentage is kept as
\* the exact fraction pctNum / pctDen.
updateBudgetDisplay(exps, budget, cm, cy) ==
    LET totalSpent == calculateTotalSpent(exps, cm, cy)
        remaining == budget - totalSpent
        capped == budget > 0 /\ totalSpent * 100 >= 100 * budget
        num == IF budget > 0 THEN (IF capped THEN 100 ELSE totalSpent * 100) ELSE 0
        den == IF budget > 0 /\ ~capped THEN budget ELSE 1
    IN  [budget |-> budget, spent |-> totalSpent, remaining |-> remaining,
         pctNum |-> num, pctDen |-> den, over |-> (num >= 90 * den)]

\* the test that guards showBudgetWarning() in updateBudgetDisplay
BudgetExceeded(exps, budget, cm, cy) ==
    budget - calculateTotalSpent(exps, cm, cy) < 0 /\ budget > 0

\* mutant: the class 'previous-month' is never added
createExpenseElement_NeverPrior(e, cm, cy) ==
    [id |-> e.id, prior |-> FALSE]

\* createExpenseElement: the parts of the element the model keeps
createExpenseElement(e, cm, cy) ==
    [id |-> e.id, prior |-> ~isCurrentMonth(e, cm, cy)]

\* mutant: the placeholder is shown when the store is empty, not when the
\* filtered list is
renderExpenses_PlaceholderOnEmptyStore(exps, filter, cm, cy) ==
    LET filtered == filterExpensesByCategory(exps, filter)
        sorted == SortForDisplay(filtered)
    IN  IF Len(exps) = 0
        THEN [items |-> <<>>, empty |-> TRUE]
        ELSE [items |-> [i \in 1..Len(sorted) |-> createExpenseElement(sorted[i], cm, cy)],
              empty |-> FALSE]

\* renderExpenses: the elements of the list, or the empty-state placeholder
renderExpenses(exps, filter, cm, cy) ==
    LET filtered == filterExpensesByCategory(exps, filter)
        sorted == SortForDisplay(filtered)
    IN  IF Len(filtered) = 0
        THEN [items |-> <<>>, empty |-> TRUE]
        ELSE [items |-> [i \in 1..Len(sorted) |-> createExpenseElement(sorted[i], cm, cy)],
              empty |-> FALSE]

\* the page as index.html ships it, before any script has run
InitialSummary == [budget |-> 0, spent |-> 0, remaining |-> 0,
                   pctNum |-> 0, pctDen |-> 1, over |-> FALSE]
InitialList == [items |-> <<>>, empty |-> TRUE]

----------------------------------------------------------------------------
(* Timers *)

TimerIds(tm) == {tm[i].id : i \in 1..Len(tm)}

\* the handle setTimeout returns: a positive integer no pending timer has
FreshTimerId(tm, handle) ==
    CHOOSE n \in 1..(Len(tm) + 2) :
        /\ n \notin TimerIds(tm) \cup {handle}
        /\ \A k \in 1..(n - 1) : k \in TimerIds(tm) \cup {handle}

setTimeout(tm, handle, kind, delay, e, target) ==
    Append(tm, [id |-> FreshTimerId(tm, handle), kind |-> kind, rem |-> delay,
                expense |-> e, target |-> target])

clearTimeout(tm, id) == SelectSeq(tm, LAMBDA t : t.id # id)

\* the timer the event loop runs next: the oldest one whose time is up
DueIndex ==
    IF \E i \in 1..Len(timers) : timers[i].rem = 0
    THEN CHOOSE i \in 1..Len(timers) :
            /\ timers[i].rem = 0
            /\ \A j \in 1..(i - 1) : timers[j].rem # 0
    ELSE 0

Due(kind) == DueIndex # 0 /\ timers[DueIndex].kind = kind

WithoutDue == [i \in 1..(Len(timers) - 1) |->
                  IF i < DueIndex THEN timers[i] ELSE timers[i + 1]]

WarningTimers(tm) == {i \in 1..Len(tm) : tm[i].kind = "warn"}

----------------------------------------------------------------------------
(* Alert controller.  w is the part of the state these functions touch:    *)
(* [timers, handle, shown, armedFor, shownFor].                            *)

\* mutant: the banner is put up and no timer is started
showBudgetWarning_NoTimer(w) ==
    [timers |-> IF w.handle # 0 THEN clearTimeout(w.timers, w.handle) ELSE w.timers,
     handle |-> 0, shown |-> TRUE, armedFor |-> 0,
     shownFor |-> IF w.shown THEN w.shownFor ELSE 0]

\* mutant: the pending timer is not cleared before a new one is started
showBudgetWarning_Stacking(w) ==
    [timers |-> setTimeout(w.timers, w.handle, "warn", WarnDelay, NoExpense, 0),
     handle |-> FreshTimerId(w.timers, w.handle), shown |-> TRUE, armedFor |-> 0,
     shownFor |-> IF w.shown THEN w.shownFor ELSE 0]

\* mutant: a pending timer is left running instead of being restarted
showBudgetWarning_NoRestart(w) ==
    IF w.handle # 0
    THEN [w EXCEPT !.shown = TRUE, !.armedFor = 0]
    ELSE [timers |-> setTimeout(w.timers, w.handle, "warn", WarnDelay, NoExpense, 0),
          handle |-> FreshTimerId(w.timers, w.handle), shown |-> TRUE, armedFor |-> 0,
          shownFor |-> 0]

\* mutant: classList.toggle for classList.add
showBudgetWarning_Toggles(w) ==
    LET cleared == IF w.handle # 0 THEN clearTimeout(w.timers, w.handle) ELSE w.timers
        id == FreshTimerId(cleared, w.handle)
    IN  [timers |-> setTimeout(cleared, w.handle, "warn", WarnDelay, NoExpense, 0),
         handle |-> id, shown |-> ~w.shown, armedFor |-> 0,
         shownFor |-> IF w.shown THEN w.shownFor ELSE 0]

showBudgetWarning(w) ==
    LET cleared == IF w.handle # 0 THEN clearTimeout(w.timers, w.handle) ELSE w.timers
        id == FreshTimerId(cleared, w.handle)
    IN  [timers |-> setTimeout(cleared, w.handle, "warn", WarnDelay, NoExpense, 0),
         handle |-> id, shown |-> TRUE, armedFor |-> 0,
         shownFor |-> IF w.shown THEN w.shownFor ELSE 0]

\* mutant: the banner is hidden and the handle dropped, the timer keeps running
hideBudgetWarning_LeavesTimer(w) ==
    [timers |-> w.timers, handle |-> 0, shown |-> FALSE, armedFor |-> 0, shownFor |-> 0]

hideBudgetWarning(w) ==
    [timers |-> IF w.handle # 0 THEN clearTimeout(w.timers, w.handle) ELSE w.timers,
     handle |-> 0, shown |-> FALSE, armedFor |-> 0, shownFor |-> 0]

\* the last statement of updateBudgetDisplay
AlertAfterUpdate(exps, budget, cm, cy, w) ==
    IF BudgetExceeded(exps, budget, cm, cy) THEN showBudgetWarning(w) ELSE w

----------------------------------------------------------------------------
(* What the page can hand to the handlers *)

RawBudgets == { <<>>, <<"0">>, <<"-", "5">>, <<"1", "0", "0", "0">>,
                <<"2", "0", "0", "0">> }

RawAmounts == { <<>>, <<"0">>, <<"-", "5">>, <<"1", "2", "0", "0">> }

\* the value of the category <select>: nothing chosen, a listed category,
\* and a value outside the list
RawCategories == {"", "food", "misc"}

RawDescriptions == { <<>>, <<" ">>, <<" ", "r", "e", "n", "t", " ">> }

RawDates(day) == { <<>>, FirstDay, day, NextDay(day) }

\* the data-category values of the filter buttons
Filters == {"all", "food"}

\* values found under the key when the page is opened
StoredValues ==
    { Absent,
      Garbage,
      saveToLocalStorage(<<[id |-> 1, amount |-> 400, category |-> "food",
                            description |-> <<"r", "e", "n", "t">>,
                            date |-> FirstDay]>>, 1000, 0, 2024),
      saveToLocalStorage(<<[id |-> 1, amount |-> 1200, category |-> "food",
                            description |-> <<"r", "e", "n", "t">>,
                            date |-> FirstDay]>>, 1000, 0, 2024),
      saveToLocalStorage(<<[id |-> 1, amount |-> 0, category |-> "misc",
                            description |-> <<>>, date |-> FirstDay]>>, 0, 1, 2024) }

----------------------------------------------------------------------------
(* Validation *)

\* mutant: the date is not compared with today
validateExpenseForm_NoFutureCheck(rawAmount, rawCategory, rawDescription, rawDate, day, id) ==
    LET amount == parseFloat(rawAmount)
        description == trim(rawDescription)
        Reject(msg) == [ok |-> FALSE, error |-> msg, expense |-> NoExpense]
    IN  IF amount.nan \/ amount.val <= 0 THEN Reject(MsgAmount)
        ELSE IF rawCategory = "" THEN Reject(MsgCategory)
        ELSE IF Len(description) = 0 THEN Reject(MsgDescription)
        ELSE IF rawDate = <<>> THEN Reject(MsgDate)
        ELSE [ok |-> TRUE, error |-> "",
              expense |-> [id |-> id, amount |-> amount.val, category |-> rawCategory,
                           description |-> description, date |-> rawDate]]

\* validateExpenseForm: the error it shows, or the expense it returns
validateExpenseForm(rawAmount, rawCategory, rawDescription, rawDate, day, id) ==
    LET amount == parseFloat(rawAmount)
        category == rawCategory
        description == trim(rawDescription)
        date == rawDate
        Reject(msg) == [ok |-> FALSE, error |-> msg, expense |-> NoExpense]
    IN  IF amount.nan \/ amount.val <= 0 THEN Reject(MsgAmount)
        ELSE IF category = "" THEN Reject(MsgCategory)
        ELSE IF Len(description) = 0 THEN Reject(MsgDescription)
        ELSE IF date = <<>> THEN Reject(MsgDate)
        ELSE IF DateKey(date) > DateKey(day) THEN Reject(MsgFuture)
        ELSE [ok |-> TRUE, error |-> "",
              expense |-> [id |-> id, amount |-> amount.val, category |-> category,
                           description |-> description, date |-> date]]

\* mutant: zero passes (< for <=)
validateBudget_AllowsZero(raw) ==
    LET budgetValue == parseFloat(raw)
    IN  IF budgetValue.nan \/ budgetValue.val < 0
        THEN [ok |-> FALSE, value |-> 0]
        ELSE [ok |-> TRUE, value |-> budgetValue.val]

\* the budget field: the value setMonthlyBudget accepts, or its refusal
validateBudget(raw) ==
    LET budgetValue == parseFloat(raw)
    IN  IF budgetValue.nan \/ budgetValue.val <= 0
        THEN [ok |-> FALSE, value |-> 0]
        ELSE [ok |-> TRUE, value |-> budgetValue.val]

----------------------------------------------------------------------------
(* Loading *)

\* loadFromLocalStorage on a value that parses: the four fields as they are
\* after the assignments and checkAndResetMonth, and whether
\* checkAndResetMonth found another period than the clock's
loadFromLocalStorage(parsedState, day) ==
    LET cm == parsedState.currentMonth
        cy == parsedState.currentYear
        rolled == cm # ClockMonth(day) \/ cy # ClockYear(day)
    IN  [expenses |-> parsedState.expenses,
         monthlyBudget |-> OrDefault(parsedState.monthlyBudget, 0),
         currentMonth |-> IF rolled THEN ClockMonth(day) ELSE cm,
         currentYear |-> IF rolled THEN ClockYear(day) ELSE cy,
         rolled |-> rolled]

----------------------------------------------------------------------------
(* The handlers without their delays: what each event does to             *)
(* z = [expenses, monthlyBudget, currentMonth, currentYear, selectedFilter, *)
(* summary, list, storage] when the callback a handler hands to setTimeout  *)
(* is run inside the handler.                                               *)

InstantSave(z, fails) ==
    [z EXCEPT !.storage = setItem(fails, z.storage,
                                  saveToLocalStorage(z.expenses, z.monthlyBudget,
                                                     z.currentMonth, z.currentYear))]

InstantSummary(z) ==
    [z EXCEPT !.summary = updateBudgetDisplay(z.expenses, z.monthlyBudget,
                                              z.currentMonth, z.currentYear)]

InstantList(z) ==
    [z EXCEPT !.list = renderExpenses(z.expenses, z.selectedFilter,
                                      z.currentMonth, z.currentYear)]

InstantBoot(day, stored) ==
    [expenses |-> <<>>, monthlyBudget |-> 0, currentMonth |-> ClockMonth(day),
     currentYear |-> ClockYear(day), selectedFilter |-> "all",
     summary |-> InitialSummary, list |-> InitialList, storage |-> stored]

InstantInitApp(z, day, fails) ==
    IF z.storage.kind = "json"
    THEN LET loaded == loadFromLocalStorage(z.storage, day)
             y == [z EXCEPT !.expenses = loaded.expenses,
                            !.monthlyBudget = loaded.monthlyBudget,
                            !.currentMonth = loaded.currentMonth,
                            !.currentYear = loaded.currentYear]
         IN  InstantList(InstantSummary(IF loaded.rolled THEN InstantSave(y, fails) ELSE y))
    ELSE z

InstantSetMonthlyBudget(z, raw, fails) ==
    LET v == validateBudget(raw)
    IN  IF v.ok
        THEN InstantSummary(InstantSave([z EXCEPT !.monthlyBudget = v.value], fails))
        ELSE z

InstantAddExpense(z, rawAmount, rawCategory, rawDescription, rawDate, day, id, fails) ==
    LET v == validateExpenseForm(rawAmount, rawCategory, rawDescription, rawDate, day, id)
    IN  IF v.ok
        THEN InstantList(InstantSummary(
                 InstantSave([z EXCEPT !.expenses = Append(@, v.expense)], fails)))
        ELSE z

InstantDeleteExpense(z, expenseId, fails) ==
    IF \E i \in 1..Len(z.list.items) : z.list.items[i].id = expenseId
    THEN InstantList(InstantSummary(
             InstantSave([z EXCEPT !.expenses = SelectSeq(@, LAMBDA e : e.id # expenseId)],
                         fails)))
    ELSE z

InstantClearAllExpenses(z, confirmed, fails) ==
    IF Len(z.expenses) # 0 /\ confirmed
    THEN InstantList(InstantSummary(InstantSave([z EXCEPT !.expenses = <<>>], fails)))
    ELSE z

InstantChangeFilter(z, category) ==
    InstantList([z EXCEPT !.selectedFilter = category])

----------------------------------------------------------------------------
(* Initial state: the page is open, script.js has built appState, initApp  *)
(* has not run yet.                                                        *)

\* the page as the script finds it and appState as it builds it; stored is
\* the set of values the key may hold
Boot(stored) ==
    /\ today = FirstDay
    /\ storage \in stored
    /\ expenses = <<>>
    /\ monthlyBudget = 0
    /\ warningTimeoutId = 0
    /\ currentMonth = ClockMonth(today)
    /\ currentYear = ClockYear(today)
    /\ selectedFilter = "all"
    /\ warningShown = FALSE
    /\ formErrorText = ""
    /\ formErrorShown = FALSE
    /\ summary = InitialSummary
    /\ list = InitialList
    /\ timers = <<>>
    /\ nextId = 2
    /\ pc = "boot"
    /\ instant = InstantBoot(today, storage)
    /\ armedFor = 0
    /\ shownFor = 0
    /\ events = 0
    /\ last = [op |-> "none", shown |-> FALSE]

\* every write to localStorage succeeds
Init == timezoneOffset = HomeOffset /\ Boot(StoredValues) /\ storageFails = FALSE

Alert == [timers |-> timers, handle |-> warningTimeoutId,
          shown |-> warningShown, armedFor |-> armedFor, shownFor |-> shownFor]

Ran(op) == last' = [op |-> op, shown |-> warningShown]

SetAlert(w) ==
    /\ timers' = w.timers
    /\ warningTimeoutId' = w.handle
    /\ warningShown' = w.shown
    /\ armedFor' = w.armedFor
    /\ shownFor' = w.shownFor

----------------------------------------------------------------------------
(* initApp: loadFromLocalStorage, with checkAndResetMonth inside it *)

\* mutant: a new month starts with an empty list
InitApp_RolloverClears ==
    /\ pc = "boot"
    /\ Ran("InitApp")
    /\ UNCHANGED <<storageFails, timezoneOffset>>
    /\ instant' = InstantInitApp(instant, today, storageFails)
    /\ pc' = "run"
    /\ IF storage.kind = "json"
       THEN LET rolled == \/ storage.currentMonth # ClockMonth(today)
                          \/ storage.currentYear # ClockYear(today)
                exps == IF rolled THEN <<>> ELSE storage.expenses
                budget == OrDefault(storage.monthlyBudget, 0)
                cm == ClockMonth(today)
                cy == ClockYear(today)
            IN  /\ expenses' = exps
                /\ monthlyBudget' = budget
                /\ currentMonth' = cm
                /\ currentYear' = cy
                /\ storage' = IF rolled
                              THEN setItem(storageFails, storage,
                                           saveToLocalStorage(exps, budget, cm, cy))
                              ELSE storage
                /\ summary' = updateBudgetDisplay(exps, budget, cm, cy)
                /\ SetAlert(AlertAfterUpdate(exps, budget, cm, cy, Alert))
                /\ list' = renderExpenses(exps, selectedFilter, cm, cy)
       ELSE UNCHANGED <<expenses, monthlyBudget, currentMonth, currentYear, storage,
                        summary, list, timers, warningTimeoutId, warningShown, armedFor, shownFor>>
    /\ UNCHANGED <<selectedFilter, formErrorText, formErrorShown, today, nextId, events>>

InitApp ==
    /\ pc = "boot"
    /\ Ran("InitApp")
    /\ UNCHANGED <<storageFails, timezoneOffset>>
    /\ instant' = InstantInitApp(instant, today, storageFails)
    /\ pc' = "run"
    /\ IF storage.kind = "json"
       THEN LET loaded == loadFromLocalStorage(storage, today)
                exps == loaded.expenses
                budget == loaded.monthlyBudget
                rolled == loaded.rolled
                cm == loaded.currentMonth
                cy == loaded.currentYear
            IN  /\ expenses' = exps
                /\ monthlyBudget' = budget
                /\ currentMonth' = cm
                /\ currentYear' = cy
                /\ storage' = IF rolled
                              THEN setItem(storageFails, storage,
                                           saveToLocalStorage(exps, budget, cm, cy))
                              ELSE storage
                /\ summary' = updateBudgetDisplay(exps, budget, cm, cy)
                /\ SetAlert(AlertAfterUpdate(exps, budget, cm, cy, Alert))
                /\ list' = renderExpenses(exps, selectedFilter, cm, cy)
       ELSE UNCHANGED <<expenses, monthlyBudget, currentMonth, currentYear, storage,
                        summary, list, timers, warningTimeoutId, warningShown, armedFor, shownFor>>
    /\ UNCHANGED <<selectedFilter, formErrorText, formErrorShown, today, nextId, events>>

----------------------------------------------------------------------------
(* Budget *)

\* mutant: the budget is not written when it is set (the write is left to
\* the next command that saves)
setMonthlyBudget_NoSave(raw) ==
    /\ pc = "run"
    /\ events < MaxEvents
    /\ Ran("setMonthlyBudget")
    /\ UNCHANGED <<storageFails, timezoneOffset>>
    /\ instant' = InstantSetMonthlyBudget(instant, raw, storageFails)
    /\ events' = events + 1
    /\ LET v == validateBudget(raw)
       IN  IF ~v.ok
           THEN /\ formErrorText' = MsgBudget
                /\ formErrorShown' = TRUE
                /\ timers' = setTimeout(timers, warningTimeoutId, "formError",
                                        FormErrorDelay, NoExpense, 0)
                /\ UNCHANGED monthlyBudget
           ELSE /\ monthlyBudget' = v.value
                /\ timers' = setTimeout(timers, warningTimeoutId, "budget",
                                        BudgetDelay, NoExpense, 0)
                /\ UNCHANGED <<formErrorText, formErrorShown>>
    /\ UNCHANGED <<expenses, warningTimeoutId, currentMonth, currentYear, selectedFilter,
                   warningShown, summary, list, storage, today, nextId, pc, armedFor,
                   shownFor>>

setMonthlyBudget(raw) ==
    /\ pc = "run"
    /\ events < MaxEvents
    /\ Ran("setMonthlyBudget")
    /\ UNCHANGED <<storageFails, timezoneOffset>>
    /\ instant' = InstantSetMonthlyBudget(instant, raw, storageFails)
    /\ events' = events + 1
    /\ LET v == validateBudget(raw)
       IN  IF ~v.ok
           THEN /\ formErrorText' = MsgBudget
                /\ formErrorShown' = TRUE
                /\ timers' = setTimeout(timers, warningTimeoutId, "formError",
                                        FormErrorDelay, NoExpense, 0)
                /\ UNCHANGED <<monthlyBudget, storage>>
           ELSE /\ monthlyBudget' = v.value
                /\ storage' = setItem(storageFails, storage,
                              saveToLocalStorage(expenses, v.value, currentMonth, currentYear))
                /\ timers' = setTimeout(timers, warningTimeoutId, "budget",
                                        BudgetDelay, NoExpense, 0)
                /\ UNCHANGED <<formErrorText, formErrorShown>>
    /\ UNCHANGED <<expenses, warningTimeoutId, currentMonth, currentYear, selectedFilter,
                   warningShown, summary, list, today, nextId, pc, armedFor, shownFor>>

\* the callback setMonthlyBudget defers by BudgetDelay
BudgetTask ==
    /\ Due("budget")
    /\ Ran("BudgetTask")
    /\ UNCHANGED <<storageFails, timezoneOffset, instant>>
    /\ summary' = updateBudgetDisplay(expenses, monthlyBudget, currentMonth, currentYear)
    /\ SetAlert(AlertAfterUpdate(expenses, monthlyBudget, currentMonth, currentYear,
                                 [Alert EXCEPT !.timers = WithoutDue]))
    /\ UNCHANGED <<appVars, formErrorText, formErrorShown, list, storage, today,
                   nextId, pc, events>>

----------------------------------------------------------------------------
(* Expenses *)

\* the submit handler of expenseForm.  The handler has no test of its own
\* for an add that is still pending (it only disables addExpenseBtn), so it
\* can run again before the commit.
addExpense(rawAmount, rawCategory, rawDescription, rawDate) ==
    /\ pc = "run"
    /\ events < MaxEvents
    /\ Ran("addExpense")
    /\ UNCHANGED <<storageFails, timezoneOffset>>
    /\ instant' = InstantAddExpense(instant, rawAmount, rawCategory, rawDescription,
                                  rawDate, today, nextId, storageFails)
    /\ events' = events + 1
    /\ LET v == validateExpenseForm(rawAmount, rawCategory, rawDescription, rawDate,
                                    today, nextId)
       IN  IF ~v.ok
           THEN /\ formErrorText' = v.error
                /\ formErrorShown' = TRUE
                /\ timers' = setTimeout(timers, warningTimeoutId, "formError",
                                        FormErrorDelay, NoExpense, 0)
                /\ UNCHANGED nextId
           ELSE /\ formErrorShown' = FALSE
                /\ timers' = setTimeout(timers, warningTimeoutId, "add",
                                        AddDelay, v.expense, 0)
                /\ nextId' = nextId + 1
                /\ UNCHANGED formErrorText
    /\ UNCHANGED <<appVars, warningTimeoutId, warningShown, summary, list, storage,
                   today, pc, armedFor, shownFor>>

\* mutant: the new expense is put first (unshift for push)
AddCommit_Unshift ==
    /\ Due("add")
    /\ Ran("AddCommit")
    /\ UNCHANGED <<storageFails, timezoneOffset, instant>>
    /\ LET exps == <<timers[DueIndex].expense>> \o expenses
       IN  /\ expenses' = exps
           /\ storage' = setItem(storageFails, storage,
                              saveToLocalStorage(exps, monthlyBudget, currentMonth, currentYear))
           /\ summary' = updateBudgetDisplay(exps, monthlyBudget, currentMonth, currentYear)
           /\ SetAlert(AlertAfterUpdate(exps, monthlyBudget, currentMonth, currentYear,
                                        [Alert EXCEPT !.timers = WithoutDue]))
           /\ list' = renderExpenses(exps, selectedFilter, currentMonth, currentYear)
    /\ UNCHANGED <<monthlyBudget, currentMonth, currentYear, selectedFilter,
                   formErrorText, formErrorShown, today, nextId, pc, events>>

\* mutant: saveToLocalStorage has no try/catch, so that a setItem that throws
\* ends the callback after the push
AddCommit_SaveThrows ==
    /\ Due("add")
    /\ Ran("AddCommit")
    /\ UNCHANGED <<storageFails, timezoneOffset, instant>>
    /\ LET exps == Append(expenses, timers[DueIndex].expense)
       IN  /\ expenses' = exps
           /\ storage' = setItem(storageFails, storage,
                              saveToLocalStorage(exps, monthlyBudget, currentMonth, currentYear))
           /\ IF storageFails
              THEN /\ timers' = WithoutDue
                   /\ UNCHANGED <<summary, list, warningTimeoutId, warningShown,
                                  armedFor, shownFor>>
              ELSE /\ summary' = updateBudgetDisplay(exps, monthlyBudget, currentMonth, currentYear)
                   /\ SetAlert(AlertAfterUpdate(exps, monthlyBudget, currentMonth, currentYear,
                                                [Alert EXCEPT !.timers = WithoutDue]))
                   /\ list' = renderExpenses(exps, selectedFilter, currentMonth, currentYear)
    /\ UNCHANGED <<monthlyBudget, currentMonth, currentYear, selectedFilter,
                   formErrorText, formErrorShown, today, nextId, pc, events>>

\* the callback addExpense defers by AddDelay
AddCommit ==
    /\ Due("add")
    /\ Ran("AddCommit")
    /\ UNCHANGED <<storageFails, timezoneOffset, instant>>
    /\ LET exps == Append(expenses, timers[DueIndex].expense)
       IN  /\ expenses' = exps
           /\ storage' = setItem(storageFails, storage,
                              saveToLocalStorage(exps, monthlyBudget, currentMonth, currentYear))
           /\ summary' = updateBudgetDisplay(exps, monthlyBudget, currentMonth, currentYear)
           /\ SetAlert(AlertAfterUpdate(exps, monthlyBudget, currentMonth, currentYear,
                                        [Alert EXCEPT !.timers = WithoutDue]))
           /\ list' = renderExpenses(exps, selectedFilter, currentMonth, currentYear)
    /\ UNCHANGED <<monthlyBudget, currentMonth, currentYear, selectedFilter,
                   formErrorText, formErrorShown, today, nextId, pc, events>>

\* ids a delete can be asked for: those stored, those on the page, those
\* handed out so far (they may have been deleted since), and 0, which is
\* never an id
DeleteTargets ==
    {expenses[i].id : i \in 1..Len(expenses)}
        \cup {list.items[i].id : i \in 1..Len(list.items)} \cup (0..(nextId - 1))

\* mutant: an id that is not on the page is reported as an error
deleteExpense_NotFoundError(expenseId) ==
    /\ pc = "run"
    /\ events < MaxEvents
    /\ Ran("deleteExpense")
    /\ UNCHANGED <<storageFails, timezoneOffset>>
    /\ instant' = InstantDeleteExpense(instant, expenseId, storageFails)
    /\ events' = events + 1
    /\ IF \E i \in 1..Len(list.items) : list.items[i].id = expenseId
       THEN /\ timers' = setTimeout(timers, warningTimeoutId, "del", DeleteDelay,
                                    NoExpense, expenseId)
            /\ UNCHANGED <<formErrorText, formErrorShown>>
       ELSE /\ formErrorText' = "Expense not found"
            /\ formErrorShown' = TRUE
            /\ timers' = setTimeout(timers, warningTimeoutId, "formError",
                                    FormErrorDelay, NoExpense, 0)
    /\ UNCHANGED <<appVars, warningTimeoutId, warningShown, summary, list, storage,
                   today, nextId, pc, armedFor, shownFor>>

deleteExpense(expenseId) ==
    /\ pc = "run"
    /\ events < MaxEvents
    /\ Ran("deleteExpense")
    /\ UNCHANGED <<storageFails, timezoneOffset>>
    /\ instant' = InstantDeleteExpense(instant, expenseId, storageFails)
    /\ events' = events + 1
    /\ timers' = IF \E i \in 1..Len(list.items) : list.items[i].id = expenseId
                 THEN setTimeout(timers, warningTimeoutId, "del", DeleteDelay,
                                 NoExpense, expenseId)
                 ELSE timers
    /\ UNCHANGED <<appVars, warningTimeoutId, warningShown, formErrorText,
                   formErrorShown, summary, list, storage, today, nextId, pc, armedFor, shownFor>>

\* the callback deleteExpense defers by DeleteDelay
DeleteCommit ==
    /\ Due("del")
    /\ Ran("DeleteCommit")
    /\ UNCHANGED <<storageFails, timezoneOffset, instant>>
    /\ LET expenseId == timers[DueIndex].target
           exps == SelectSeq(expenses, LAMBDA e : e.id # expenseId)
       IN  /\ expenses' = exps
           /\ storage' = setItem(storageFails, storage,
                              saveToLocalStorage(exps, monthlyBudget, currentMonth, currentYear))
           /\ summary' = updateBudgetDisplay(exps, monthlyBudget, currentMonth, currentYear)
           /\ SetAlert(AlertAfterUpdate(exps, monthlyBudget, currentMonth, currentYear,
                                        [Alert EXCEPT !.timers = WithoutDue]))
           /\ list' = renderExpenses(exps, selectedFilter, currentMonth, currentYear)
    /\ UNCHANGED <<monthlyBudget, currentMonth, currentYear, selectedFilter,
                   formErrorText, formErrorShown, today, nextId, pc, events>>

\* mutant: the answer of the confirm dialog is ignored
clearAllExpenses_NoConfirm(confirmed) ==
    /\ pc = "run"
    /\ events < MaxEvents
    /\ Ran("clearAllExpenses")
    /\ UNCHANGED <<storageFails, timezoneOffset>>
    /\ instant' = InstantClearAllExpenses(instant, confirmed, storageFails)
    /\ events' = events + 1
    /\ IF Len(expenses) # 0
       THEN /\ expenses' = <<>>
            /\ storage' = setItem(storageFails, storage,
                              saveToLocalStorage(<<>>, monthlyBudget, currentMonth, currentYear))
            /\ summary' = updateBudgetDisplay(<<>>, monthlyBudget, currentMonth, currentYear)
            /\ SetAlert(AlertAfterUpdate(<<>>, monthlyBudget, currentMonth, currentYear, Alert))
            /\ list' = renderExpenses(<<>>, selectedFilter, currentMonth, currentYear)
       ELSE UNCHANGED <<expenses, storage, summary, list, timers, warningTimeoutId,
                        warningShown, armedFor, shownFor>>
    /\ UNCHANGED <<monthlyBudget, currentMonth, currentYear, selectedFilter,
                   formErrorText, formErrorShown, today, nextId, pc>>

\* the click handler of clearAllBtn; confirmed is the answer the user gives
\* to confirm(), which is asked only when the store is not empty
clearAllExpenses(confirmed) ==
    /\ pc = "run"
    /\ events < MaxEvents
    /\ Ran("clearAllExpenses")
    /\ UNCHANGED <<storageFails, timezoneOffset>>
    /\ instant' = InstantClearAllExpenses(instant, confirmed, storageFails)
    /\ events' = events + 1
    /\ IF Len(expenses) # 0 /\ confirmed
       THEN /\ expenses' = <<>>
            /\ storage' = setItem(storageFails, storage,
                              saveToLocalStorage(<<>>, monthlyBudget, currentMonth, currentYear))
            /\ summary' = updateBudgetDisplay(<<>>, monthlyBudget, currentMonth, currentYear)
            /\ SetAlert(AlertAfterUpdate(<<>>, monthlyBudget, currentMonth, currentYear, Alert))
            /\ list' = renderExpenses(<<>>, selectedFilter, currentMonth, currentYear)
       ELSE UNCHANGED <<expenses, storage, summary, list, timers, warningTimeoutId,
                        warningShown, armedFor, shownFor>>
    /\ UNCHANGED <<monthlyBudget, currentMonth, currentYear, selectedFilter,
                   formErrorText, formErrorShown, today, nextId, pc>>

\* mutant: the handler runs the whole reconciliation, updateBudgetDisplay
\* included
changeFilter_Reconciles(category) ==
    /\ pc = "run"
    /\ events < MaxEvents
    /\ Ran("changeFilter")
    /\ UNCHANGED <<storageFails, timezoneOffset>>
    /\ instant' = InstantChangeFilter(instant, category)
    /\ events' = events + 1
    /\ selectedFilter' = category
    /\ summary' = updateBudgetDisplay(expenses, monthlyBudget, currentMonth, currentYear)
    /\ SetAlert(AlertAfterUpdate(expenses, monthlyBudget, currentMonth, currentYear, Alert))
    /\ list' = renderExpenses(expenses, category, currentMonth, currentYear)
    /\ UNCHANGED <<expenses, monthlyBudget, currentMonth, currentYear,
                   formErrorText, formErrorShown, storage, today, nextId, pc>>

\* the click handler of a filter button
changeFilter(category) ==
    /\ pc = "run"
    /\ events < MaxEvents
    /\ Ran("changeFilter")
    /\ UNCHANGED <<storageFails, timezoneOffset>>
    /\ instant' = InstantChangeFilter(instant, category)
    /\ events' = events + 1
    /\ selectedFilter' = category
    /\ list' = renderExpenses(expenses, category, currentMonth, currentYear)
    /\ UNCHANGED <<expenses, monthlyBudget, warningTimeoutId, currentMonth, currentYear,
                   warningShown, formErrorText, formErrorShown, summary, storage,
                   timers, today, nextId, pc, armedFor, shownFor>>

----------------------------------------------------------------------------
(* Warning banner *)

\* the click handler of warningClose
DismissWarning ==
    /\ pc = "run"
    /\ events < MaxEvents
    /\ Ran("DismissWarning")
    /\ UNCHANGED <<storageFails, timezoneOffset, instant>>
    /\ events' = events + 1
    /\ SetAlert(hideBudgetWarning(Alert))
    /\ UNCHANGED <<appVars, formErrorText, formErrorShown, summary, list, storage,
                   today, nextId, pc>>

\* mutant: the callback takes the banner down and leaves the handle
WarnExpire_KeepsHandle ==
    /\ Due("warn")
    /\ Ran("WarnExpire")
    /\ UNCHANGED <<storageFails, timezoneOffset, instant>>
    /\ SetAlert([Alert EXCEPT !.timers = WithoutDue, !.shown = FALSE,
                              !.armedFor = 0, !.shownFor = 0])
    /\ UNCHANGED <<appVars, formErrorText, formErrorShown, summary, list, storage,
                   today, nextId, pc, events>>

\* the callback showBudgetWarning defers by WarnDelay
WarnExpire ==
    /\ Due("warn")
    /\ Ran("WarnExpire")
    /\ UNCHANGED <<storageFails, timezoneOffset, instant>>
    /\ SetAlert(hideBudgetWarning([Alert EXCEPT !.timers = WithoutDue]))
    /\ UNCHANGED <<appVars, formErrorText, formErrorShown, summary, list, storage,
                   today, nextId, pc, events>>

\* the callback showFormError defers by FormErrorDelay: hideFormError
FormErrorExpire ==
    /\ Due("formError")
    /\ Ran("FormErrorExpire")
    /\ UNCHANGED <<storageFails, timezoneOffset, instant>>
    /\ timers' = WithoutDue
    /\ formErrorShown' = FALSE
    /\ UNCHANGED <<appVars, warningTimeoutId, warningShown, formErrorText, summary,
                   list, storage, today, nextId, pc, armedFor, shownFor, events>>

\* the 'input' handler of the four form fields: the user edits a field
hideFormError ==
    /\ pc = "run"
    /\ events < MaxEvents
    /\ Ran("hideFormError")
    /\ UNCHANGED <<storageFails, timezoneOffset, instant>>
    /\ events' = events + 1
    /\ formErrorShown' = FALSE
    /\ UNCHANGED <<appVars, warningTimeoutId, warningShown, formErrorText, summary,
                   list, storage, timers, today, nextId, pc, armedFor, shownFor>>

----------------------------------------------------------------------------
(* Environment *)

MinRem == CHOOSE d \in {timers[i].rem : i \in 1..Len(timers)} :
              \A i \in 1..Len(timers) : d <= timers[i].rem

\* time passes until the next timer is due
Advance ==
    /\ Len(timers) > 0
    /\ DueIndex = 0
    /\ UNCHANGED <<storageFails, timezoneOffset, instant>>
    /\ timers' = [i \in 1..Len(timers) |-> [timers[i] EXCEPT !.rem = @ - MinRem]]
    /\ armedFor' = IF warningShown THEN armedFor + MinRem ELSE armedFor
    /\ shownFor' = IF warningShown THEN shownFor + MinRem ELSE shownFor
    /\ UNCHANGED <<appVars, warningTimeoutId, warningShown, formErrorText,
                   formErrorShown, summary, list, storage, today, nextId, pc,
                   events, last>>

\* midnight
DayPasses ==
    /\ today # LastDay
    /\ events < MaxEvents
    /\ UNCHANGED <<storageFails, timezoneOffset, instant>>
    /\ events' = events + 1
    /\ today' = NextDay(today)
    /\ UNCHANGED <<appVars, warningTimeoutId, warningShown, formErrorText,
                   formErrorShown, summary, list, storage, timers, nextId, pc,
                   armedFor, shownFor, last>>

\* the user reloads the page: the script starts over, localStorage stays
Reload ==
    /\ pc = "run"
    /\ events < MaxEvents
    /\ Ran("Reload")
    /\ UNCHANGED <<storageFails, timezoneOffset>>
    /\ instant' = InstantBoot(today, instant.storage)
    /\ events' = events + 1
    /\ expenses' = <<>>
    /\ monthlyBudget' = 0
    /\ warningTimeoutId' = 0
    /\ currentMonth' = ClockMonth(today)
    /\ currentYear' = ClockYear(today)
    /\ selectedFilter' = "all"
    /\ warningShown' = FALSE
    /\ formErrorText' = ""
    /\ formErrorShown' = FALSE
    /\ summary' = InitialSummary
    /\ list' = InitialList
    /\ timers' = <<>>
    /\ pc' = "boot"
    /\ armedFor' = 0
    /\ shownFor' = 0
    /\ UNCHANGED <<storage, today, nextId>>

----------------------------------------------------------------------------

Next ==
    \/ InitApp
    \/ \E raw \in RawBudgets : setMonthlyBudget(raw)
    \/ BudgetTask
    \/ \E a \in RawAmounts, c \in RawCategories, d \in RawDescriptions,
          dt \in RawDates(today) : addExpense(a, c, d, dt)
    \/ AddCommit
    \/ \E id \in DeleteTargets : deleteExpense(id)
    \/ DeleteCommit
    \/ \E confirmed \in BOOLEAN : clearAllExpenses(confirmed)
    \/ \E category \in Filters : changeFilter(category)
    \/ DismissWarning
    \/ WarnExpire
    \/ FormErrorExpire
    \/ hideFormError
    \/ Advance
    \/ DayPasses
    \/ Reload

Spec == Init /\ [][Next]_vars

\* the event loop: time goes on, and a callback whose timer is due is
\* run.  A callback is enabled exactly when its timer is the first one due,
\* and for the three callbacks of the commands weak fairness is written
\* with that condition in the place of ENABLED: WF_vars(A) is
\* []<>~ENABLED <<A>>_vars \/ []<><<A>>_vars.
SpecEventLoop ==
    /\ Spec
    /\ WF_vars(Advance)
    /\ WF_vars(WarnExpire)
    /\ WF_vars(FormErrorExpire)
    /\ []<>(~Due("budget")) \/ []<><<BudgetTask>>_vars
    /\ []<>(~Due("add")) \/ []<><<AddCommit>>_vars
    /\ []<>(~Due("del")) \/ []<><<DeleteCommit>>_vars

----------------------------------------------------------------------------
(* The same page opened while localStorage.setItem throws (the quota is    *)
(* reached, or storage is switched off); other pages of the origin can     *)
(* free the quota and fill it again.                                        *)

InitFailingWrites ==
    timezoneOffset = HomeOffset /\ Boot(StoredValues) /\ storageFails = TRUE

StorageChange ==
    /\ events < MaxEvents
    /\ events' = events + 1
    /\ storageFails' = ~storageFails
    /\ UNCHANGED <<appVars, timezoneOffset, instant, warningTimeoutId, warningShown, formErrorText,
                   formErrorShown, summary, list, storage, timers, today, nextId,
                   pc, armedFor, shownFor, last>>

NextFailingWrites == Next \/ StorageChange

SpecFailingWrites == InitFailingWrites /\ [][NextFailingWrites]_vars

----------------------------------------------------------------------------
(* The page opened on snapshots that hold the same expenses in every order, *)
(* to see what renderExpenses makes of the order of storage.                *)

\* two expenses of one day, one of the day before and one of the year
\* before, the oldest ids not on the oldest dates
DisplayExpenses ==
    { [id |-> 1, amount |-> 400, category |-> "food",
       description |-> <<"r", "e", "n", "t">>, date |-> <<2024, 1, 31>>],
      [id |-> 2, amount |-> 400, category |-> "transport",
       description |-> <<"r", "e", "n", "t">>, date |-> <<2024, 1, 31>>],
      [id |-> 3, amount |-> 400, category |-> "food",
       description |-> <<"r", "e", "n", "t">>, date |-> <<2023, 12, 31>>],
      [id |-> 4, amount |-> 400, category |-> "food",
       description |-> <<"r", "e", "n", "t">>, date |-> <<2024, 1, 30>>] }

\* the sequences without repetition of at most MaxStored of them
DisplaySequences ==
    { q \in UNION { [1..n -> DisplayExpenses] : n \in 0..MaxStored } :
        \A i, j \in 1..Len(q) : i # j => q[i] # q[j] }

DisplaySnapshots == { saveToLocalStorage(q, 1000, 0, 2024) : q \in DisplaySequences }

InitDisplayOrder ==
    timezoneOffset = HomeOffset /\ Boot(DisplaySnapshots) /\ storageFails = FALSE

NextDisplayOrder ==
    \/ InitApp
    \/ \E category \in Filters : changeFilter(category)
    \/ Reload

SpecDisplayOrder == InitDisplayOrder /\ [][NextDisplayOrder]_vars

----------------------------------------------------------------------------
(* The page opened under clocks of every offset on snapshots whose         *)
(* expenses are dated on the first or the last day of a month, to see what *)
(* the Date arithmetic of isCurrentMonth makes of the month boundaries.    *)

BoundaryDates ==
    { <<2023, 12, 31>>, <<2024, 1, 1>>, <<2024, 1, 31>>, <<2024, 2, 1>>,
      <<2024, 2, 29>>, <<2024, 3, 1>> }

BoundaryExpense(date) ==
    [id |-> 1, amount |-> 400, category |-> "food",
     description |-> <<"r", "e", "n", "t">>, date |-> date]

\* one expense on each boundary date, and the last of January with the
\* first of February together
BoundarySnapshots ==
    { saveToLocalStorage(<<BoundaryExpense(date)>>, 1000, 0, 2024) : date \in BoundaryDates }
       \cup { saveToLocalStorage(<<BoundaryExpense(<<2024, 1, 31>>),
                                    [BoundaryExpense(<<2024, 2, 1>>) EXCEPT !.id = 2]>>,
                                  1000, 0, 2024) }

InitTimezones ==
    /\ timezoneOffset \in TimezoneOffsets
    /\ Boot(BoundarySnapshots)
    /\ storageFails = FALSE

NextTimezones ==
    \/ InitApp
    \/ DayPasses
    \/ Reload

SpecTimezones == InitTimezones /\ [][NextTimezones]_vars

----------------------------------------------------------------------------
(* Vocabulary of the properties *)

AddTimers(tm) == {i \in 1..Len(tm) : tm[i].kind = "add"}
BudgetTimers(tm) == {i \in 1..Len(tm) : tm[i].kind = "budget"}

\* the message on the page, "" when none is shown
Reported == IF formErrorShown THEN formErrorText ELSE ""

\* a text that is a decimal numeral: an optional sign, then digits only
IsNumeral(s) ==
    LET body == IF s # <<>> /\ Head(s) \in {"-", "+"} THEN Tail(s) ELSE s
    IN  body # <<>> /\ \A i \in 1..Len(body) : body[i] \in DigitChars

RECURSIVE DigitsValue(_)
DigitsValue(s) ==
    IF s = <<>> THEN 0
    ELSE 10 * DigitsValue(SubSeq(s, 1, Len(s) - 1)) + DigitVal(s[Len(s)])

NumeralValue(s) ==
    IF Head(s) = "-" THEN 0 - DigitsValue(Tail(s))
    ELSE IF Head(s) = "+" THEN DigitsValue(Tail(s)) ELSE DigitsValue(s)

PositiveNumber(s) == IsNumeral(s) /\ NumeralValue(s) > 0

Blank(s) == \A i \in 1..Len(s) : s[i] = " "

\* calendar date x is after calendar date y
DateAfter(x, y) ==
    \/ x[1] > y[1]
    \/ x[1] = y[1] /\ x[2] > y[2]
    \/ x[1] = y[1] /\ x[2] = y[2] /\ x[3] > y[3]

\* the sum of the amounts dated in month m (0-11) of year y
RECURSIVE PeriodSpend(_, _, _)
PeriodSpend(exps, m, y) ==
    IF exps = <<>> THEN 0
    ELSE (IF Head(exps).date[1] = y /\ Head(exps).date[2] = m + 1
          THEN Head(exps).amount ELSE 0) + PeriodSpend(Tail(exps), m, y)

----------------------------------------------------------------------------
\* C1: in every reachable state at most one warning auto-dismiss timer is
\* pending, and when one is pending it is the one appState.warningTimeoutId
\* names (arming while a timer is pending cancelled the old one).
C1_AtMostOneWarningTimer ==
    /\ Cardinality(WarningTimers(timers)) <= 1
    /\ \A i \in WarningTimers(timers) : timers[i].id = warningTimeoutId

\* the banner was armed again some time after it came up, and one timer is pending
C1_Witness ==
    /\ warningShown
    /\ shownFor > armedFor
    /\ Cardinality(WarningTimers(timers)) = 1

----------------------------------------------------------------------------
C3_HiddenOnlyByExpiryOrDismissal ==
    /\ [](~warningShown => (warningTimeoutId = 0 /\ WarningTimers(timers) = {}))
    /\ [][(warningShown /\ ~warningShown') => (WarnExpire \/ DismissWarning \/ Reload)]_vars

\* the user dismissed a banner that was up with its timer still running:
\* nothing of the timer is left
C3_Witness ==
    /\ last = [op |-> "DismissWarning", shown |-> TRUE]
    /\ ~warningShown
    /\ warningTimeoutId = 0
    /\ WarningTimers(timers) = {}
    /\ Len(timers) > 0

----------------------------------------------------------------------------
\* C4: whenever the commit of an added expense leaves the current-period
\* spend S above a budget B > 0, the reconciliation of that commit shows
\* remaining = B - S (negative) and 100 percent, and the banner is up with a
\* fresh timer (it has gone from hidden to shown if it was hidden).
C4_OverspendingAddReconciles ==
    [][(/\ AddCommit
        /\ monthlyBudget > 0
        /\ PeriodSpend(expenses', currentMonth, currentYear) > monthlyBudget)
       => (/\ summary'.remaining
                 = monthlyBudget - PeriodSpend(expenses', currentMonth, currentYear)
           /\ summary'.remaining < 0
           /\ summary'.pctNum = 100 * summary'.pctDen
           /\ warningShown'
           /\ armedFor' = 0
           /\ Cardinality(WarningTimers(timers')) = 1)]_vars

\* budget 1000, nothing spent, 1200 added: remaining -200, 100 percent, and
\* the banner, hidden before the commit, is up
C4_Witness ==
    /\ last = [op |-> "AddCommit", shown |-> FALSE]
    /\ monthlyBudget = 1000
    /\ summary.remaining = 0 - 200
    /\ summary.pctNum = 100 /\ summary.pctDen = 1
    /\ warningShown

\* the inputs the validation is to refuse
C5_Invalid(a, c, d, dt) ==
    \/ ~PositiveNumber(a)
    \/ c = ""
    \/ Blank(d)
    \/ dt = <<>>
    \/ (dt # <<>> /\ DateAfter(dt, today))

\* what a refused addExpense must leave alone
C5_NothingChanged ==
    /\ UNCHANGED <<expenses, monthlyBudget, currentMonth, currentYear,
                   selectedFilter, storage>>
    /\ Cardinality(AddTimers(timers')) = Cardinality(AddTimers(timers))

\* C5: an addExpense whose amount is no positive number, whose category or
\* date is missing, whose description is empty or whose date is after today
\* leaves expenses, monthlyBudget, the period, selectedFilter and the stored
\* snapshot as they were and schedules no deferred commit.  (Stated as its
\* contrapositive: when a step changes any of these, every input it is the
\* addExpense of passes all five rules.)
C5_RejectedAddChangesNothing ==
    [][C5_NothingChanged
       \/ \A a \in RawAmounts, c \in RawCategories, d \in RawDescriptions,
             dt \in RawDates(today) :
             addExpense(a, c, d, dt) => ~C5_Invalid(a, c, d, dt)]_vars

\* an expense dated tomorrow was refused: the future-date error is shown and
\* no commit is pending
C5_Witness ==
    /\ last.op = "addExpense"
    /\ Reported = MsgFuture
    /\ AddTimers(timers) = {}
    /\ storage.kind = "json"
    /\ expenses = storage.expenses

\* the error of the first rule an input fails, in the order amount, category,
\* description, date present, date not after today; "" when it fails none
C6_FirstError(a, c, d, dt) ==
    IF ~PositiveNumber(a) THEN MsgAmount
    ELSE IF c \notin Categories THEN MsgCategory
    ELSE IF Blank(d) THEN MsgDescription
    ELSE IF dt = <<>> THEN MsgDate
    ELSE IF DateAfter(dt, today) THEN MsgFuture
    ELSE ""

\* C6: for every input the validation reports exactly the error of the first
\* rule that fails, in the order amount is a positive number, category is one
\* of the fixed set, description is non-empty after trimming, date is
\* present, date is not after today; and nothing when no rule fails (a date
\* equal to today passes).
C6_FirstFailingRuleReported ==
    [][\A a \in RawAmounts, c \in RawCategories, d \in RawDescriptions,
          dt \in RawDates(today) :
          addExpense(a, c, d, dt) => Reported' = C6_FirstError(a, c, d, dt)]_vars

\* C7: once the stored value has been loaded, every expense in the store and
\* in the stored snapshot has amount > 0 and a non-empty description.
C7_StoredExpensesValid ==
    pc = "run" =>
        /\ \A i \in 1..Len(expenses) :
              expenses[i].amount > 0 /\ expenses[i].description # <<>>
        /\ storage.kind = "json" =>
              \A i \in 1..Len(storage.expenses) :
                  /\ storage.expenses[i].amount > 0
                  /\ storage.expenses[i].description # <<>>

\* C8: an addExpense whose amount is valid and whose category is outside the
\* fixed set is refused with the category error and schedules no commit.
C8_CategoryOutsideSetRejected ==
    [][\A a \in RawAmounts, c \in RawCategories, d \in RawDescriptions,
          dt \in RawDates(today) :
          (PositiveNumber(a) /\ c \notin Categories /\ addExpense(a, c, d, dt))
          => (/\ Reported' = MsgCategory
              /\ Cardinality(AddTimers(timers')) = Cardinality(AddTimers(timers)))]_vars

\* C9: setMonthlyBudget with a value that is no number greater than 0 shows
\* the budget error, leaves monthlyBudget, the expenses, the period and the
\* stored snapshot as they were and schedules no deferred reconciliation.
C9_InvalidBudgetChangesNothing ==
    [][\A raw \in RawBudgets :
          (~PositiveNumber(raw) /\ setMonthlyBudget(raw))
          => (/\ Reported' = MsgBudget
              /\ UNCHANGED <<monthlyBudget, expenses, currentMonth, currentYear, storage>>
              /\ Cardinality(BudgetTimers(timers'))
                    = Cardinality(BudgetTimers(timers)))]_vars

\* a budget of 1000 is in force, an invalid value was entered and refused
C9_Witness ==
    /\ last.op = "setMonthlyBudget"
    /\ Reported = MsgBudget
    /\ monthlyBudget = 1000
    /\ storage.kind = "json" /\ storage.monthlyBudget = 1000
    /\ BudgetTimers(timers) = {}

----------------------------------------------------------------------------
\* the ids held in a sequence of expenses
IdsOf(exps) == {exps[i].id : i \in 1..Len(exps)}

\* the pending deferred deletions of id
DelTimers(tm, id) == {i \in 1..Len(tm) : tm[i].kind = "del" /\ tm[i].target = id}

\* C11: deleteExpense(id) of an id that is in the store, whatever
\* selectedFilter is, schedules the removal of id; and the commit of a
\* removal leaves the store without that id, the other expenses in their
\* order, monthlyBudget and the period as they were, and the new sequence in
\* the stored snapshot.
C11_DeleteRemovesStoredId ==
    /\ [][\A id \in DeleteTargets :
             (id \in IdsOf(expenses) /\ deleteExpense(id))
             => Cardinality(DelTimers(timers', id))
                   = Cardinality(DelTimers(timers, id)) + 1]_vars
    /\ [][DeleteCommit
           => (/\ timers[DueIndex].target \notin IdsOf(expenses')
               /\ expenses' = SelectSeq(expenses,
                                  LAMBDA e : e.id # timers[DueIndex].target)
               /\ UNCHANGED <<monthlyBudget, currentMonth, currentYear>>
               /\ storage'.kind = "json"
               /\ storage'.expenses = expenses')]_vars

----------------------------------------------------------------------------
\* C12: deleteExpense(id) of an id that is not in the store changes neither
\* the expenses, the budget, the period, the filter nor the stored snapshot,
\* shows no error and schedules nothing; and the commit of a removal whose
\* id is no longer in the store (the id was deleted twice) leaves all of
\* these as the first removal left them.
C12_DeleteAbsentChangesNothing ==
    /\ [][\A id \in DeleteTargets :
             (id \notin IdsOf(expenses) /\ deleteExpense(id))
             => UNCHANGED <<expenses, monthlyBudget, currentMonth, currentYear,
                            selectedFilter, storage, formErrorText, formErrorShown,
                            timers>>]_vars
    /\ [][(DeleteCommit /\ timers[DueIndex].target \notin IdsOf(expenses))
           => UNCHANGED <<expenses, monthlyBudget, currentMonth, currentYear,
                          selectedFilter, storage, formErrorText, formErrorShown>>]_vars

\* deleteExpense has just run on a store that had been emptied (so its id
\* was not in the store): nothing is scheduled, no error is shown, and the
\* snapshot still holds the empty sequence and the budget
C12_Witness ==
    /\ last.op = "deleteExpense"
    /\ selectedFilter = "all"
    /\ expenses = <<>>
    /\ storage.kind = "json" /\ storage.expenses = <<>>
    /\ storage.monthlyBudget = 1000
    /\ timers = <<>>
    /\ ~formErrorShown

----------------------------------------------------------------------------
\* C13: clearAllExpenses changes nothing unless the user confirms (the
\* dialog is shown only for a non-empty store): refused, it leaves the
\* expenses, the budget, the period, the filter and the stored snapshot as
\* they were; confirmed, it empties the expenses, stores the empty sequence
\* with the budget and period in force, and leaves monthlyBudget, the period
\* and selectedFilter as they were.
C13_ClearOnlyWhenConfirmed ==
    [][\A confirmed \in BOOLEAN :
          clearAllExpenses(confirmed)
          => IF confirmed /\ Len(expenses) # 0
             THEN /\ expenses' = <<>>
                  /\ storage'.kind = "json"
                  /\ storage'.expenses = <<>>
                  /\ storage'.monthlyBudget = monthlyBudget
                  /\ storage'.currentMonth = currentMonth
                  /\ storage'.currentYear = currentYear
                  /\ UNCHANGED <<monthlyBudget, currentMonth, currentYear, selectedFilter>>
             ELSE UNCHANGED <<expenses, monthlyBudget, currentMonth, currentYear,
                              selectedFilter, storage>>]_vars

\* a store that put the spend over the budget (the banner was up) has just
\* been cleared: it is empty, the empty sequence is stored, the budget stays
C13_Witness ==
    /\ last = [op |-> "clearAllExpenses", shown |-> TRUE]
    /\ expenses = <<>>
    /\ storage.kind = "json" /\ storage.expenses = <<>>
    /\ monthlyBudget = 1000 /\ storage.monthlyBudget = 1000
    /\ list.empty
    /\ summary.spent = 0

----------------------------------------------------------------------------
\* C14: the click on a filter button sets selectedFilter to the button's
\* category and leaves the expenses, monthlyBudget, the period, the warning
\* timer (its handle and the timer itself) and the stored snapshot as they
\* were.
C14_FilterChangesOnlyFilter ==
    [][\A category \in Filters :
          changeFilter(category)
          => (/\ selectedFilter' = category
              /\ UNCHANGED <<expenses, monthlyBudget, currentMonth, currentYear,
                             warningTimeoutId, warningShown, timers, storage>>)]_vars

\* the filter was set to "food" while the banner was up with its timer
\* running: banner, handle and timer are still there
C14_Witness ==
    /\ last = [op |-> "changeFilter", shown |-> TRUE]
    /\ selectedFilter = "food"
    /\ warningShown
    /\ warningTimeoutId # 0
    /\ \E i \in WarningTimers(timers) : timers[i].id = warningTimeoutId
    /\ Len(expenses) > 0

----------------------------------------------------------------------------
\* the stored snapshot names a period other than the clock's
StoredPeriodDiffers ==
    /\ storage.kind = "json"
    /\ \/ storage.currentMonth # ClockMonth(today)
       \/ storage.currentYear # ClockYear(today)

\* C15: when the page is loaded with a stored period that differs from the
\* clock's, the load sets the period to the clock's and stores the snapshot
\* at once; the expenses (every record, in order) and monthlyBudget, in the
\* store and in the snapshot, are exactly those that were stored.
C15_RolloverKeepsExpenses ==
    [][(InitApp /\ StoredPeriodDiffers)
       => (/\ currentMonth' = ClockMonth(today)
           /\ currentYear' = ClockYear(today)
           /\ expenses' = storage.expenses
           /\ monthlyBudget' = storage.monthlyBudget
           /\ storage' = [storage EXCEPT !.currentMonth = ClockMonth(today),
                                         !.currentYear = ClockYear(today)])]_vars

\* the page was loaded in February with a January snapshot: the January
\* expense is kept and listed as of a prior period, February's spend is 0,
\* and the snapshot names February
C15_Witness ==
    /\ last.op = "InitApp"
    /\ today = LastDay
    /\ currentMonth = 1 /\ currentYear = 2024
    /\ Len(expenses) = 1 /\ expenses[1].date = FirstDay
    /\ monthlyBudget = 1000
    /\ storage.kind = "json" /\ storage.currentMonth = 1
    /\ storage.expenses = expenses
    /\ summary.spent = 0
    /\ Len(list.items) = 1 /\ list.items[1].prior

----------------------------------------------------------------------------
\* a step that computes the current spend or the prior-period tags: a load
\* of a stored snapshot, a deferred reconciliation, a confirmed clear, a
\* change of filter
ConsultsPeriod ==
    \/ InitApp /\ storage.kind = "json"
    \/ BudgetTask
    \/ AddCommit
    \/ DeleteCommit
    \/ clearAllExpenses(TRUE) /\ Len(expenses) # 0
    \/ \E category \in Filters : changeFilter(category)

\* C16: every step that computes the current spend or the prior-period tags
\* does so with a period equal to the clock's month and year, also after the
\* clock has passed into a new month while the page stayed open.
C16_PeriodFollowsClock ==
    [][ConsultsPeriod
       => (/\ currentMonth' = ClockMonth(today)
           /\ currentYear' = ClockYear(today))]_vars

----------------------------------------------------------------------------
\* months since year 0, to compare periods
PeriodKey(y, m) == y * 12 + m

\* C17: the period never moves to an earlier one: no step takes
\* (currentYear, currentMonth) backwards, and a load of a stored snapshot
\* leaves a period that is not earlier than the one the snapshot held, also
\* when the snapshot's period is later than the clock's.
C17_PeriodNeverRollsBack ==
    /\ [][PeriodKey(currentYear', currentMonth')
             >= PeriodKey(currentYear, currentMonth)]_vars
    /\ [][(InitApp /\ storage.kind = "json")
           => (/\ PeriodKey(currentYear', currentMonth')
                    >= PeriodKey(storage.currentYear, storage.currentMonth)
               /\ PeriodKey(storage'.currentYear, storage'.currentMonth)
                    >= PeriodKey(storage.currentYear, storage.currentMonth))]_vars

----------------------------------------------------------------------------
\* an expense record as validateExpenseForm is meant to produce it
WellFormedExpense(e) ==
    /\ e.amount > 0
    /\ e.category \in Categories
    /\ e.description # <<>>
    /\ e.date # <<>>

\* the key is absent, or its value cannot be parsed, or its expenses are not
\* a list of well-formed expenses
MalformedStored ==
    \/ storage.kind # "json"
    \/ \E i \in 1..Len(storage.expenses) : ~WellFormedExpense(storage.expenses[i])

\* C18: a load with the key absent or holding a malformed value leaves
\* exactly the defaults: no expenses, monthlyBudget 0, the period of the
\* clock; nothing of the malformed value gets into the state.
C18_MalformedLoadsAsDefaults ==
    [][(InitApp /\ MalformedStored)
       => (/\ expenses' = <<>>
           /\ monthlyBudget' = 0
           /\ currentMonth' = ClockMonth(today)
           /\ currentYear' = ClockYear(today))]_vars

----------------------------------------------------------------------------
----------------------------------------------------------------------------
\* the fields of a written snapshot ("kind" tells a parsed object from an
\* absent key and from text that does not parse)
SnapshotFields == {"kind", "expenses", "monthlyBudget", "currentMonth", "currentYear"}

\* a load that follows a reload of the page
LoadAfterReload == InitApp /\ last.op = "Reload"

\* C20 as stated: every written value has exactly the four fields, and once
\* a reloaded page has loaded, selectedFilter is "all" and no warning timer
\* is pending.
C20_NoTimerAfterReload ==
    /\ [](storage.kind = "json" => DOMAIN storage = SnapshotFields)
    /\ [][LoadAfterReload
           => (/\ selectedFilter' = "all"
               /\ WarningTimers(timers') = {})]_vars

\* C20, amended: every written value has exactly the four fields; a reload
\* leaves selectedFilter "all", the handle empty and no timer pending when
\* the script starts; and after the load selectedFilter is still "all" and
\* a warning timer is pending exactly when the loaded spend of the period is
\* above a positive budget: a new timer with the whole of WarnDelay to run,
\* named by the handle.
C20_TransientStateNotPersisted ==
    /\ [](storage.kind = "json" => DOMAIN storage = SnapshotFields)
    /\ [][Reload
           => (selectedFilter' = "all" /\ warningTimeoutId' = 0 /\ timers' = <<>>)]_vars
    /\ [][LoadAfterReload
           => (/\ selectedFilter' = "all"
               /\ (WarningTimers(timers') # {}
                     <=> (/\ storage.kind = "json"
                          /\ monthlyBudget' > 0
                          /\ PeriodSpend(expenses', currentMonth', currentYear')
                                > monthlyBudget'))
               /\ \A i \in WarningTimers(timers') :
                     /\ timers'[i].rem = WarnDelay
                     /\ timers'[i].id = warningTimeoutId'
               /\ Len(timers') = Cardinality(WarningTimers(timers')))]_vars

\* the filter was "food" and the banner had been dismissed; the page was
\* reloaded and has loaded an overspent snapshot: the filter is "all" and
\* the banner is up again on a new timer
C20_Witness ==
    /\ last.op = "InitApp"
    /\ today = FirstDay
    /\ events = 2
    /\ selectedFilter = "all"
    /\ warningShown
    /\ armedFor = 0
    /\ \E i \in WarningTimers(timers) :
          timers[i].rem = WarnDelay /\ timers[i].id = warningTimeoutId
    /\ DOMAIN storage = SnapshotFields

----------------------------------------------------------------------------
\* the summary and the list are those of the state the step leaves
Reconciled ==
    /\ summary' = updateBudgetDisplay(expenses', monthlyBudget', currentMonth', currentYear')
    /\ list' = renderExpenses(expenses', selectedFilter', currentMonth', currentYear')
    /\ BudgetExceeded(expenses', monthlyBudget', currentMonth', currentYear')
          => (warningShown' /\ armedFor' = 0)

\* C21: with a localStorage whose setItem can throw, a step taken while it
\* throws leaves the stored value as it was, and every command has its
\* effect in memory and is reconciled whether or not its write, or any
\* earlier write, failed: an accepted budget is set and its reconciliation
\* scheduled and later run, a committed add appends, a committed delete
\* removes, a confirmed clear empties, a load with another stored period
\* takes the clock's period.
C21_FailedWriteIsNotFatal ==
    [][/\ storageFails => storage' = storage
       /\ (last'.op = "setMonthlyBudget" /\ events' # events) =>
            \A raw \in RawBudgets :
             (PositiveNumber(raw) /\ setMonthlyBudget(raw))
             => (/\ monthlyBudget' = NumeralValue(raw)
                 /\ Cardinality(BudgetTimers(timers'))
                       = Cardinality(BudgetTimers(timers)) + 1)
       /\ BudgetTask
           => summary' = updateBudgetDisplay(expenses, monthlyBudget,
                                             currentMonth, currentYear)
       /\ AddCommit
           => (expenses' = Append(expenses, timers[DueIndex].expense) /\ Reconciled)
       /\ DeleteCommit
           => (/\ expenses' = SelectSeq(expenses,
                                  LAMBDA e : e.id # timers[DueIndex].target)
               /\ Reconciled)
       /\ (clearAllExpenses(TRUE) /\ Len(expenses) # 0)
           => (expenses' = <<>> /\ Reconciled)
       /\ (InitApp /\ StoredPeriodDiffers)
           => (/\ currentMonth' = ClockMonth(today)
               /\ currentYear' = ClockYear(today)
               /\ Reconciled)]_vars

\* nothing was stored and no write has succeeded: a budget of 1000 was set
\* (its write failed), then 1200 was added (its write failed too); both are
\* in memory and on the page, the banner is up, and the key is still absent
C21_Witness ==
    /\ storageFails
    /\ last.op = "AddCommit"
    /\ storage = Absent
    /\ monthlyBudget = 1000
    /\ Len(expenses) = 1
    /\ summary.budget = 1000 /\ summary.spent = 1200
    /\ Len(list.items) = 1
    /\ warningShown

----------------------------------------------------------------------------
\* what saveToLocalStorage would write in this state
Projection == saveToLocalStorage(expenses, monthlyBudget, currentMonth, currentYear)

\* C22: when no write fails, in every state of the running page in which
\* the key holds a snapshot, the snapshot is the projection {expenses,
\* monthlyBudget, currentMonth, currentYear} of the state in memory; and a
\* step of the page that changes one of the four leaves them written, so
\* that no reconciliation, in that step or a later one, shows a change that
\* is not stored.
C22_SnapshotEqualsProjection ==
    /\ []((pc = "run" /\ storage.kind = "json") => storage = Projection)
    /\ [][(/\ pc' = "run"
           /\ <<expenses', monthlyBudget', currentMonth', currentYear'>>
                 # <<expenses, monthlyBudget, currentMonth, currentYear>>)
          => storage' = saveToLocalStorage(expenses', monthlyBudget',
                                           currentMonth', currentYear')]_vars

\* a budget of 2000 has been set and written; its reconciliation is still
\* pending and the page shows another budget
C22_Witness ==
    /\ last.op = "setMonthlyBudget"
    /\ monthlyBudget = 2000
    /\ storage = Projection
    /\ summary.budget # 2000
    /\ BudgetTimers(timers) # {}

----------------------------------------------------------------------------
\* the commands that were submitted and whose deferred part has not run
\* yet, as indices of timers (which is in order of submission)
CommandTimers(tm) == {i \in 1..Len(tm) : tm[i].kind \in {"add", "del", "budget"}}

\* a step in which a command changes the state at once, with no deferral: a
\* confirmed clear of a non-empty store, the assignment of an accepted budget
ImmediateMutation ==
    \/ clearAllExpenses(TRUE) /\ Len(expenses) # 0
    \/ \E raw \in RawBudgets : PositiveNumber(raw) /\ setMonthlyBudget(raw)

\* C23: commands do not interleave: the deferred part of a command (the
\* commit of an add or of a delete, the reconciliation of a budget) runs
\* only when no command submitted before it is still pending, and a command
\* that changes the state at once does so only when no command is pending.
C23_CommandsDoNotInterleave ==
    /\ [][(AddCommit \/ DeleteCommit \/ BudgetTask)
           => \A j \in CommandTimers(timers) : j >= DueIndex]_vars
    /\ [][ImmediateMutation => CommandTimers(timers) = {}]_vars

----------------------------------------------------------------------------
\* no command is waiting for its deferred part
Quiescent == pc = "run" /\ CommandTimers(timers) = {}

\* C24: the delays do not affect the outcome: whenever no deferred part of a
\* command is pending, the expenses, monthlyBudget, the period,
\* selectedFilter, the summary and the list are those that the same events
\* leave when every deferred part runs at once at submission.
C24_DelaysDoNotAffectOutcome ==
    Quiescent =>
        /\ expenses = instant.expenses
        /\ monthlyBudget = instant.monthlyBudget
        /\ currentMonth = instant.currentMonth
        /\ currentYear = instant.currentYear
        /\ selectedFilter = instant.selectedFilter
        /\ summary = instant.summary
        /\ list = instant.list

----------------------------------------------------------------------------
\* the expenses dated in month m (0-11) of year y, in their order
InPeriod(exps, m, y) ==
    SelectSeq(exps, LAMBDA e : e.date[1] = y /\ e.date[2] = m + 1)

\* C25: in every state the spend on the page is the sum of the amounts of
\* exactly the expenses dated in (currentMonth, currentYear), which is 0 for
\* an empty store; and a step that leaves the period and the expenses of the
\* period as they were, whatever it does to the other expenses, leaves the
\* spend on the page as it was.
C25_SpendIsOfThePeriod ==
    /\ [](summary.spent = PeriodSpend(expenses, currentMonth, currentYear))
    /\ [](expenses = <<>> => summary.spent = 0)
    /\ [][(/\ currentMonth' = currentMonth
           /\ currentYear' = currentYear
           /\ InPeriod(expenses', currentMonth, currentYear)
                 = InPeriod(expenses, currentMonth, currentYear))
          => summary'.spent = summary.spent]_vars

\* the period is January 2024 and holds 400; an expense of 1200 dated in
\* February has been added: the spend on the page is still 400
C25_Witness ==
    /\ last.op = "AddCommit"
    /\ currentMonth = 0 /\ currentYear = 2024
    /\ Len(expenses) = 2
    /\ expenses[2].date = LastDay /\ expenses[2].amount = 1200
    /\ summary.spent = 400

----------------------------------------------------------------------------
----------------------------------------------------------------------------
\* the stored expense an element of the list was made from
ExpenseOf(item) == CHOOSE e \in {expenses[i] : i \in 1..Len(expenses)} : e.id = item.id

\* a is listed before b whatever their order of storage: a's date is later,
\* or the dates are equal and a's id is larger
ListedBefore(a, b) ==
    \/ DateAfter(a.date, b.date)
    \/ a.date = b.date /\ a.id > b.id

\* C27: the order of the list is a function of the set of expenses alone:
\* every element of the list is of a stored expense, and of any two
\* elements the upper one has the later date, or the same date and the
\* larger id, whatever positions the two expenses have in the store.
C27_DisplayOrderIsOfTheSet ==
    \A i, j \in 1..Len(list.items) :
        /\ list.items[i].id \in IdsOf(expenses)
        /\ i < j => ListedBefore(ExpenseOf(list.items[i]), ExpenseOf(list.items[j]))

\* stored in the order 3 (31 Dec 2023), 1 (31 Jan), 2 (31 Jan), listed in
\* the order 2, 1, 3
C27_Witness ==
    /\ last.op = "InitApp"
    /\ Len(expenses) = 3
    /\ <<expenses[1].id, expenses[2].id, expenses[3].id>> = <<3, 1, 2>>
    /\ Len(list.items) = 3
    /\ <<list.items[1].id, list.items[2].id, list.items[3].id>> = <<2, 1, 3>>

----------------------------------------------------------------------------
\* the render on the page: the summary (budget, spent, remaining, percent,
\* over-threshold flag), the list (elements with their tags, or the
\* empty-state placeholder) and whether the banner is up
RenderModel == [summary |-> summary, list |-> list, warning |-> warningShown]

\* the render a reconciliation of the present state leaves on the page
Rerendered ==
    [summary |-> updateBudgetDisplay(expenses, monthlyBudget, currentMonth, currentYear),
     list |-> renderExpenses(expenses, selectedFilter, currentMonth, currentYear),
     warning |-> AlertAfterUpdate(expenses, monthlyBudget, currentMonth, currentYear,
                                  Alert).shown]

\* a step that runs updateBudgetDisplay
ReconciliationStep ==
    \/ InitApp /\ storage.kind = "json"
    \/ BudgetTask
    \/ AddCommit
    \/ DeleteCommit
    \/ clearAllExpenses(TRUE) /\ Len(expenses) # 0

----------------------------------------------------------------------------
\* the expenses selectedFilter lets through: all of them for "all", those
\* of the category otherwise
Visible ==
    IF selectedFilter = "all" THEN expenses
    ELSE SelectSeq(expenses, LAMBDA e : e.category = selectedFilter)

\* C29: in every state, so after every reconciliation, the list holds one
\* element for each expense selectedFilter lets through and no other, in
\* the order date descending, then id descending; and the empty-state
\* placeholder is shown exactly when the filter lets nothing through, also
\* when the store is not empty.
C29_ListIsFilteredAndSorted ==
    /\ Len(list.items) = Len(Visible)
    /\ {list.items[i].id : i \in 1..Len(list.items)} = IdsOf(Visible)
    /\ \A i, j \in 1..Len(list.items) :
          i < j => ListedBefore(ExpenseOf(list.items[i]), ExpenseOf(list.items[j]))
    /\ list.empty <=> Visible = <<>>

\* the filter was set to "food" on a store that holds one expense of
\* another category: nothing is listed and the placeholder is shown
C29_Witness ==
    /\ last.op = "changeFilter"
    /\ selectedFilter = "food"
    /\ Len(expenses) = 1
    /\ expenses[1].category # "food"
    /\ list.items = <<>>
    /\ list.empty

----------------------------------------------------------------------------
\* the date of e is outside month m (0-11) of year y
OutsidePeriod(e, m, y) == e.date[1] # y \/ e.date[2] # m + 1

----------------------------------------------------------------------------
\* C31: in every state of the running page the budget, the spend, the
\* remainder and the percentage on the page, and the list, are those
\* derived from the state in memory: no state is observable whose summary
\* or list is of an earlier state than the one a mutation produced.
C31_DisplayReflectsState ==
    pc = "run" =>
        /\ summary.budget = monthlyBudget
        /\ summary.spent = PeriodSpend(expenses, currentMonth, currentYear)
        /\ summary.remaining
              = monthlyBudget - PeriodSpend(expenses, currentMonth, currentYear)
        /\ summary = updateBudgetDisplay(expenses, monthlyBudget, currentMonth, currentYear)
        /\ list = renderExpenses(expenses, selectedFilter, currentMonth, currentYear)

----------------------------------------------------------------------------
\* the pending deferred deletions, whatever their id
PendingDeletes(tm) == {i \in 1..Len(tm) : tm[i].kind = "del"}

\* C32 as stated: a delete changes nothing when it is initiated; from then
\* to its commit the expense is in the store; and a pending deletion leaves
\* the timers only by its own commit, which removes the id, writes and
\* reconciles.
C32_DeleteIsUnconditional ==
    /\ [](\A i \in PendingDeletes(timers) : timers[i].target \in IdsOf(expenses))
    /\ [][\A i \in PendingDeletes(timers) :
             \/ \E k \in PendingDeletes(timers') : timers'[k].id = timers[i].id
             \/ DeleteCommit /\ i = DueIndex]_vars

\* what holds of the deferred delete: a delete changes neither the store nor the summary nor
\* the snapshot when it is initiated, and schedules one commit if the
\* element is on the page; until that commit the expense leaves the store
\* only by another command of the user (a confirmed clear, the commit of
\* an earlier delete of the same id) or a reload; within a page session a
\* pending deletion leaves the timers only by its own commit, whatever
\* handlers run in between; and the commit leaves the store without the
\* id, the snapshot written and the page reconciled.
C32_DeleteCommitsOncePerSession ==
    [][/\ (last'.op = "deleteExpense" /\ events' # events)
            => (/\ UNCHANGED <<expenses, summary, list, storage>>
                /\ Cardinality(PendingDeletes(timers'))
                      <= Cardinality(PendingDeletes(timers)) + 1
                /\ \A k \in PendingDeletes(timers') :
                      k \notin PendingDeletes(timers)
                         => (/\ timers'[k].rem = DeleteDelay
                             /\ timers'[k].target \in IdsOf(expenses)))
       /\ \A i \in PendingDeletes(timers) :
             /\ \/ \E k \in PendingDeletes(timers') :
                      /\ timers'[k].id = timers[i].id
                      /\ timers'[k].target = timers[i].target
                \/ DeleteCommit /\ i = DueIndex
                \/ Reload
             /\ (timers[i].target \in IdsOf(expenses)
                   /\ timers[i].target \notin IdsOf(expenses'))
                => (DeleteCommit \/ clearAllExpenses(TRUE) \/ Reload)
       /\ DeleteCommit
            => (/\ timers[DueIndex].target \notin IdsOf(expenses')
                /\ Cardinality(PendingDeletes(timers'))
                      = Cardinality(PendingDeletes(timers)) - 1
                /\ storage' = saveToLocalStorage(expenses', monthlyBudget',
                                                 currentMonth', currentYear')
                /\ summary' = updateBudgetDisplay(expenses', monthlyBudget',
                                                  currentMonth', currentYear')
                /\ list' = renderExpenses(expenses', selectedFilter',
                                          currentMonth', currentYear'))]_vars

\* the one expense of the store was on the page when its deletion was
\* initiated; the filter was then changed to one that hides it; the commit
\* has run all the same: the store and the snapshot are empty
DeleteCommittedAfterFilterChange ==
    /\ last.op = "DeleteCommit"
    /\ events = 2
    /\ selectedFilter = "food"
    /\ monthlyBudget = 0
    /\ expenses = <<>>
    /\ storage.kind = "json" /\ storage.expenses = <<>>
    /\ list.empty
    /\ PendingDeletes(timers) = {}

----------------------------------------------------------------------------
\* the step leaves the banner up with a fresh timer of WarnDelay, the one
\* warning timer, held by the handle
ArmedAfter ==
    /\ warningShown'
    /\ armedFor' = 0
    /\ warningTimeoutId' # 0
    /\ Cardinality(WarningTimers(timers')) = 1
    /\ \A i \in WarningTimers(timers') :
          timers'[i].rem = WarnDelay /\ timers'[i].id = warningTimeoutId'

\* the step touches neither the banner nor its handle nor its timer
AlertUntouched ==
    /\ UNCHANGED <<warningShown, warningTimeoutId, armedFor>>
    /\ {timers'[i] : i \in WarningTimers(timers')}
          = {timers[i] : i \in WarningTimers(timers)}

\* the steps that run updateBudgetDisplay
UpdateBudgetDisplayStep ==
    \/ InitApp
    \/ BudgetTask
    \/ AddCommit
    \/ DeleteCommit
    \/ clearAllExpenses(TRUE) /\ Len(expenses) # 0

\* C33: every reconciliation (of the load, of a budget, an add, a delete,
\* a clear, and of a filter change) that leaves remaining < 0 with
\* monthlyBudget > 0 arms the warning: banner up, one fresh timer of
\* WarnDelay; one that leaves remaining >= 0 or monthlyBudget = 0 leaves
\* the banner, the handle and the timer as they were.
C33_EveryReconciliationArmsWhenOver ==
    [][(UpdateBudgetDisplayStep \/ \E category \in Filters : changeFilter(category))
         => IF BudgetExceeded(expenses', monthlyBudget', currentMonth', currentYear')
            THEN ArmedAfter
            ELSE AlertUntouched]_vars

\* what holds of the arming: the steps that run updateBudgetDisplay arm
\* when over and touch nothing of the alert otherwise; a filter change
\* never touches the alert
ArmedByUpdateBudgetDisplayOnly ==
    [][/\ UpdateBudgetDisplayStep
            => IF BudgetExceeded(expenses', monthlyBudget', currentMonth', currentYear')
               THEN ArmedAfter
               ELSE AlertUntouched
       /\ (last'.op = "changeFilter" /\ events' # events) => AlertUntouched]_vars

\* over budget with the banner down (dismissed or expired), and the filter
\* has just been changed
FilterChangedWhileOverAndHidden ==
    /\ last.op = "changeFilter"
    /\ BudgetExceeded(expenses, monthlyBudget, currentMonth, currentYear)
    /\ ~warningShown

----------------------------------------------------------------------------
OnMonthBoundary(date) == date[3] = 1 \/ date[3] = DaysInMonth(date[1], date[2])

\* the periods around the dates of the snapshots
Periods == (0..11) \X (2023..2025)

----------------------------------------------------------------------------
\* C35: in every state the banner is up exactly when the handle
\* appState.warningTimeoutId is not empty, and the handle is not empty
\* exactly when the timer it names is pending: the banner is never up
\* without its dismiss pending, and no warning timer is pending while it
\* is down.
C35_ShownIffTimerPending ==
    /\ warningShown <=> warningTimeoutId # 0
    /\ warningTimeoutId # 0
          <=> \E i \in WarningTimers(timers) : timers[i].id = warningTimeoutId
    /\ warningShown <=> WarningTimers(timers) # {}

\* the banner was up, its timer has run out and its callback has run: the
\* state is still over budget, the banner is down, the handle is empty and
\* no warning timer is left
C35_Witness ==
    /\ last = [op |-> "WarnExpire", shown |-> TRUE]
    /\ BudgetExceeded(expenses, monthlyBudget, currentMonth, currentYear)
    /\ ~warningShown
    /\ warningTimeoutId = 0
    /\ WarningTimers(timers) = {}

----------------------------------------------------------------------------
====
